---- MODULE Spec2Model ----
(***************************************************************************)
(* Model of backend/src/services/linkedinScraper.ts: one LinkedInScraper   *)
(* instance (its rate-limit fields and configuration), the clock, and the  *)
(* invocations of scrapeTopicPosts / scrapeProfile / searchTopCreators     *)
(* running on it.  Every await of the source is an interleaving point: an  *)
(* action runs one invocation from one await to the next.                  *)
(* Model of workers/browserAutomation.js: one HTTP request to the worker   *)
(* and the browsing loop it runs.                                          *)
(***************************************************************************)
EXTENDS Integers, Sequences, FiniteSets, TLC

VARIABLES
    now,                 \* Date.now(), in milliseconds
    config,              \* this.config
    requestCount,        \* this.requestCount
    lastRequestTime,     \* this.lastRequestTime
    hourlyRequestCount,  \* this.hourlyRequestCount
    hourStartTime,       \* this.hourStartTime
    calls,               \* the invocations in progress, one per slot
    started,             \* history: number of invocations made so far
    grants,              \* history: the times at which checkRateLimits returned true
    worker               \* the request the browser automation worker is serving

vars == <<now, config, requestCount, lastRequestTime, hourlyRequestCount,
          hourStartTime, calls, started, grants, worker>>

gov == <<requestCount, lastRequestTime, hourlyRequestCount, hourStartTime>>

----------------------------------------------------------------------------
(* Bounds of the model *)

NumSlots == 2          \* invocations that may be in flight at once
MaxInvocations == 2    \* invocations made on the instance in one behaviour
MaxCeiling == 2        \* largest configured maxPerHour
MaxHours == 1          \* whole idle hours the clock may jump
RandDenom == 2         \* Math.random() is drawn from {0/RandDenom, ..}
MaxHeight == 2         \* scrollHeight readings are 0..MaxHeight
MaxPage == 2           \* DOM elements one extraction may return

Procs == 1..NumSlots

----------------------------------------------------------------------------
(* Program constants *)

HourMs == 60 * 60 * 1000
NavSettleMs == 3000
DefaultMinDelay == 3000
DefaultMaxDelay == 8000
PostsPerScroll == 10

\* limit is a number, not only a whole one: the model holds a limit as a
\* count of LimitDenom-th parts, and Whole(n) is the limit n
LimitDenom == 2

Whole(n) == n * LimitDenom

\* Date.now() when the scraper is constructed: well past 1970, so that the
\* initial lastRequestTime = 0 lies more than any delay in the past.
StartTime == 2 * HourMs

MaxNow == StartTime + MaxHours * HourMs

Configs ==
    { [minDelay |-> DefaultMinDelay, maxDelay |-> DefaultMaxDelay, maxPerHour |-> m] :
        m \in 0..MaxCeiling }

----------------------------------------------------------------------------
(* The page: what the DOM holds and what page.evaluate makes of it *)

\* The texts of a post element's author and content nodes; "" also stands for
\* a missing node.  One post, the same post with padded text, the same text
\* by an author whose node is missing, the same author with another text, and
\* a post without text.
RawElements ==
    { [author |-> "ann", content |-> "x"],
      [author |-> "ann", content |-> " x"],
      [author |-> "", content |-> "x"],
      [author |-> "ann", content |-> "y"],
      [author |-> "ann", content |-> ""] }

\* textContent?.trim()
Trim(s) == IF s = " x" THEN "x" ELSE s

OrElse(s, d) == IF s = "" THEN d ELSE s

ExtractElement(el) ==
    [author |-> OrElse(Trim(el.author), "Unknown"), content |-> Trim(el.content)]

ExtractPage(dom) == [i \in 1..Len(dom) |-> ExtractElement(dom[i])]

SeqsUpTo(S, n) == UNION { [1..k -> S] : k \in 0..n }

----------------------------------------------------------------------------
(* The pacing fields: checkRateLimits and getRandomDelay *)

\* mutant: the window is reset only after more than an hour
WindowExpiredStrict(t) == t - hourStartTime > HourMs

\* now - this.hourStartTime >= 60 * 60 * 1000
WindowExpired(t) == t - hourStartTime >= HourMs

\* this.hourlyRequestCount / this.hourStartTime after the reset of lines 57-60
RolledCount(t) == IF WindowExpired(t) THEN 0 ELSE hourlyRequestCount

\* mutant: the window start is never moved
RolledStartFrozen(t) == hourStartTime

RolledStart(t) == IF WindowExpired(t) THEN t ELSE hourStartTime

\* this.hourlyRequestCount >= this.config.maxPerHour, after the reset
QuotaExhausted(t) == RolledCount(t) >= config.maxPerHour

\* Math.floor(Math.random() * (maxDelay - minDelay) + minDelay), with
\* Math.random() = k / RandDenom; minDelay is an integer, \div rounds down
GetRandomDelay(k) ==
    config.minDelay + ((k * (config.maxDelay - config.minDelay)) \div RandDenom)

\* how long checkRateLimits sleeps before it returns true (0: no sleep)
RateWait(t, k) ==
    LET timeSinceLastRequest == t - lastRequestTime
        requiredDelay == GetRandomDelay(k)
    IN  IF timeSinceLastRequest < requiredDelay
        THEN requiredDelay - timeSinceLastRequest
        ELSE 0

----------------------------------------------------------------------------
(* The collecting loop of scrapeTopicPosts *)

\* mutant: Math.floor instead of Math.ceil
MaxScrollAttemptsFloor(limit) == limit \div (PostsPerScroll * LimitDenom)

\* Math.ceil(limit / 10)
MaxScrollAttempts(limit) == -((-limit) \div (PostsPerScroll * LimitDenom))

\* mutant: only the record added last is compared
IsDuplicateOfLast(posts, post) ==
    /\ posts # <<>>
    /\ posts[Len(posts)].content = post.content
    /\ posts[Len(posts)].author = post.author

\* posts.some((p) => p.content === post.content && p.author === post.author)
IsDuplicate(posts, post) ==
    \E i \in 1..Len(posts) :
        posts[i].content = post.content /\ posts[i].author = post.author

\* the record pushed for an extracted element
Pushed(post) == [author |-> OrElse(post.author, "Unknown"), content |-> post.content]

\* mutant: a new record is put in front of the accumulated list
RECURSIVE AddUniqueFront(_, _, _)
AddUniqueFront(posts, newPosts, limit) ==
    IF newPosts = <<>> \/ Whole(Len(posts)) >= limit
    THEN posts
    ELSE LET post == Head(newPosts)
         IN  IF ~IsDuplicate(posts, post) /\ post.content # ""
             THEN AddUniqueFront(<<Pushed(post)>> \o posts, Tail(newPosts), limit)
             ELSE AddUniqueFront(posts, Tail(newPosts), limit)

\* mutant: a record without content ends the processing of the extraction
RECURSIVE AddUniqueStopsAtEmpty(_, _, _)
AddUniqueStopsAtEmpty(posts, newPosts, limit) ==
    IF newPosts = <<>> \/ Whole(Len(posts)) >= limit
    THEN posts
    ELSE LET post == Head(newPosts)
         IN  IF post.content = ""
             THEN posts
             ELSE IF ~IsDuplicate(posts, post)
             THEN AddUniqueStopsAtEmpty(Append(posts, Pushed(post)), Tail(newPosts), limit)
             ELSE AddUniqueStopsAtEmpty(posts, Tail(newPosts), limit)

\* mutant: the limit is not tested before a record is pushed
RECURSIVE AddUniqueUnbounded(_, _, _)
AddUniqueUnbounded(posts, newPosts, limit) ==
    IF newPosts = <<>>
    THEN posts
    ELSE LET post == Head(newPosts)
         IN  IF ~IsDuplicate(posts, post) /\ post.content # ""
             THEN AddUniqueUnbounded(Append(posts, Pushed(post)), Tail(newPosts), limit)
             ELSE AddUniqueUnbounded(posts, Tail(newPosts), limit)

\* for (const post of newPosts) { ... }: the accumulated list after the loop
RECURSIVE AddUnique(_, _, _)
AddUnique(posts, newPosts, limit) ==
    IF newPosts = <<>> \/ Whole(Len(posts)) >= limit
    THEN posts
    ELSE LET post == Head(newPosts)
         IN  IF ~IsDuplicate(posts, post) /\ post.content # ""
             THEN AddUnique(Append(posts, Pushed(post)), Tail(newPosts), limit)
             ELSE AddUnique(posts, Tail(newPosts), limit)

\* history: how many elements of newPosts the loop skipped as duplicates
RECURSIVE Skipped(_, _, _)
Skipped(posts, newPosts, limit) ==
    IF newPosts = <<>> \/ Whole(Len(posts)) >= limit
    THEN 0
    ELSE LET post == Head(newPosts)
         IN  IF ~IsDuplicate(posts, post) /\ post.content # ""
             THEN Skipped(Append(posts, Pushed(post)), Tail(newPosts), limit)
             ELSE (IF IsDuplicate(posts, post) /\ post.content # "" THEN 1 ELSE 0)
                  + Skipped(posts, Tail(newPosts), limit)

\* history: the extracted records in the order the crawl first saw them
RECURSIVE Discovered(_, _)
Discovered(order, newPosts) ==
    IF newPosts = <<>>
    THEN order
    ELSE IF \E i \in 1..Len(order) : order[i] = Head(newPosts)
         THEN Discovered(order, Tail(newPosts))
         ELSE Discovered(Append(order, Head(newPosts)), Tail(newPosts))

\* mutant: the loop has no ceiling on its scroll attempts
LoopContinuesUncapped(c) == Whole(Len(c.posts)) < c.limit

\* posts.length < limit && scrollAttempts < maxScrollAttempts
LoopContinues(c) ==
    Whole(Len(c.posts)) < c.limit /\ c.scrollAttempts < MaxScrollAttempts(c.limit)

\* mutant: the loop never breaks on an unchanged height
StagnatedNever(c, currentHeight) == FALSE

\* currentHeight === previousHeight
Stagnated(c, currentHeight) == currentHeight = c.previousHeight

----------------------------------------------------------------------------
(* One invocation *)

Idle ==
    [id |-> 0, pc |-> "idle", kind |-> "none", limit |-> 0, creds |-> "valid", wakeAt |-> 0,
     browser |-> "none", posts |-> <<>>, previousHeight |-> 0, scrollAttempts |-> 0,
     outcome |-> "none", error |-> "none",
     \* history of the invocation
     rolledFull |-> FALSE, permit |-> "none", login |-> "none", navs |-> 0, extracts |-> 0, reads |-> {},
     scrolls |-> 0, seen |-> {}, skipped |-> 0, exit |-> "none",
     order |-> <<>>, cancel |-> -1]

\* throw outside the try block: the invocation ends at once
Thrown(c, err) == [c EXCEPT !.pc = "done", !.outcome = "thrown", !.error = err]

\* mutant: an error inside the try block ends the invocation with the browser open
ThrownInTryNoFinally(c, err) == [c EXCEPT !.pc = "done", !.outcome = "thrown", !.error = err]

\* mutant: an error inside the try block ends the crawl with the records so far
ThrownInTrySalvages(c, err) ==
    [c EXCEPT !.pc = "closing", !.outcome = "returned", !.error = err]

\* throw inside the try block: catch logs and rethrows, finally closes the browser
ThrownInTry(c, err) == [c EXCEPT !.pc = "closing", !.outcome = "thrown", !.error = err]

\* mutant: a denied invocation returns an empty result
DeniedReturnsEmpty(c) ==
    [c EXCEPT !.permit = "denied", !.pc = "done", !.outcome = "returned"]

\* mutant: a denied invocation goes on to launch the browser
DeniedProceeds(c) == [c EXCEPT !.permit = "denied", !.pc = "launch"]

\* the code after checkRateLimits returned false
Denied(c) == Thrown([c EXCEPT !.permit = "denied"], "RateLimit")

\* the code after checkRateLimits returned true: decrypt the cookies, then
\* launch the browser
AfterGrant(c) ==
    IF c.creds = "undecryptable"
    THEN Thrown([c EXCEPT !.permit = "granted"], "Credential")
    ELSE [c EXCEPT !.permit = "granted", !.pc = "launch"]

\* mutant: the result of loginWithCookies is not tested
AfterLoginUnchecked(c, result) == [c EXCEPT !.login = result, !.pc = "navigate"]

\* mutant: a failed login ends the crawl with an empty result
AfterLoginReturnsEmpty(c, result) ==
    IF result = "ok"
    THEN [c EXCEPT !.login = result, !.pc = "navigate"]
    ELSE [c EXCEPT !.login = result, !.pc = "closing", !.outcome = "returned"]

\* the code after loginWithCookies returned
AfterLogin(c, result) ==
    IF result = "ok"
    THEN [c EXCEPT !.login = result, !.pc = "navigate"]
    ELSE ThrownInTry([c EXCEPT !.login = result], "Login")

\* mutant: the lifetime counter is not incremented
FinishCountsHourOnly(p, c) ==
    /\ requestCount' = requestCount
    /\ hourlyRequestCount' = hourlyRequestCount + 1
    /\ lastRequestTime' = now
    /\ calls' = [calls EXCEPT ![p] = [c EXCEPT !.pc = "closing", !.outcome = "returned"]]
    /\ UNCHANGED <<now, config, hourStartTime, started, grants, worker>>

\* the three counter updates before the return, and the return
Finish(p, c) ==
    /\ requestCount' = requestCount + 1
    /\ hourlyRequestCount' = hourlyRequestCount + 1
    /\ lastRequestTime' = now
    /\ calls' = [calls EXCEPT ![p] = [c EXCEPT !.pc = "closing", !.outcome = "returned"]]
    /\ UNCHANGED <<now, config, hourStartTime, started, grants, worker>>

Step(p, c) ==
    /\ calls' = [calls EXCEPT ![p] = c]
    /\ UNCHANGED <<now, config, gov, started, grants, worker>>

\* the loop test, then the body or the code after the loop
LoopOrFinish(p, c) ==
    IF LoopContinues(c)
    THEN Step(p, [c EXCEPT !.pc = "extract"])
    ELSE Finish(p, [c EXCEPT !.exit = "condition"])

----------------------------------------------------------------------------
(* Actions *)

\* a call of scrapeTopicPosts / scrapeProfile / searchTopCreators, up to its
\* first await that yields: checkRateLimits runs synchronously
Invoke(p, kind, limit, creds, k) ==
    /\ calls[p].pc \in {"idle", "done"}
    /\ started < MaxInvocations
    /\ started' = started + 1
    /\ hourlyRequestCount' = RolledCount(now)
    /\ hourStartTime' = RolledStart(now)
    /\ LET c == [Idle EXCEPT !.id = started + 1, !.kind = kind, !.limit = limit,
                              !.creds = creds,
                              !.rolledFull = WindowExpired(now) /\
                                             hourlyRequestCount >= config.maxPerHour]
       IN  IF QuotaExhausted(now)
           THEN /\ calls' = [calls EXCEPT ![p] = Denied(c)]
                /\ UNCHANGED grants
           ELSE IF RateWait(now, k) > 0
           THEN /\ calls' = [calls EXCEPT ![p] =
                                [c EXCEPT !.pc = "rateSleep", !.permit = "waiting",
                                          !.wakeAt = now + RateWait(now, k)]]
                /\ UNCHANGED grants
           ELSE /\ calls' = [calls EXCEPT ![p] = AfterGrant(c)]
                /\ grants' = Append(grants, now)
    /\ UNCHANGED <<now, config, requestCount, lastRequestTime, worker>>

\* the sleep of checkRateLimits is over: it returns true
RateWake(p) ==
    /\ calls[p].pc = "rateSleep"
    /\ now >= calls[p].wakeAt
    /\ calls' = [calls EXCEPT ![p] = AfterGrant([calls[p] EXCEPT !.wakeAt = 0])]
    /\ grants' = Append(grants, now)
    /\ UNCHANGED <<now, config, gov, started, worker>>

\* initBrowser, then newPage and setViewport inside the try block
Launch(p, result) ==
    /\ calls[p].pc = "launch"
    /\ Step(p, IF result = "launchError" THEN Thrown(calls[p], "Transport")
               ELSE IF result = "pageError"
               THEN ThrownInTry([calls[p] EXCEPT !.browser = "open"], "Transport")
               ELSE [calls[p] EXCEPT !.browser = "open", !.pc = "login"])

\* loginWithCookies: "transport" is an error it catches and turns into false
Login(p, result) ==
    /\ calls[p].pc = "login"
    /\ Step(p, AfterLogin(calls[p], result))

\* page.goto of the search or profile URL, then the sleep(3000) is started
Navigate(p, ok) ==
    /\ calls[p].pc = "navigate"
    /\ LET c == [calls[p] EXCEPT !.navs = @ + 1]
       IN  Step(p, IF ok THEN [c EXCEPT !.pc = "navSleep", !.wakeAt = now + NavSettleMs]
                   ELSE ThrownInTry(c, "Transport"))

\* the sleep(3000) is over
NavWake(p) ==
    /\ calls[p].pc = "navSleep"
    /\ now >= calls[p].wakeAt
    /\ LET c == [calls[p] EXCEPT !.wakeAt = 0]
       IN  IF c.kind = "topic"
           THEN LoopOrFinish(p, [c EXCEPT !.previousHeight = 0, !.scrollAttempts = 0])
           ELSE Step(p, [c EXCEPT !.pc = "evaluate"])

\* page.evaluate of the post extraction, then the loop that adds unique posts
Extract(p, dom, ok) ==
    /\ calls[p].pc = "extract"
    /\ LET c == [calls[p] EXCEPT !.extracts = @ + 1]
           newPosts == ExtractPage(dom)
       IN  Step(p, IF ok
                   THEN [c EXCEPT !.posts = AddUnique(@, newPosts, c.limit),
                                  !.skipped = @ + Skipped(c.posts, newPosts, c.limit),
                                  !.seen = @ \cup {newPosts[i] : i \in 1..Len(newPosts)},
                                  !.order = Discovered(@, newPosts),
                                  !.pc = "height"]
                   ELSE ThrownInTry(c, "Transport"))

\* page.evaluate of document.body.scrollHeight, and the stagnation test
ReadHeight(p, currentHeight, ok) ==
    /\ calls[p].pc = "height"
    /\ IF ~ok
       THEN Step(p, ThrownInTry(calls[p], "Transport"))
       ELSE LET c == [calls[p] EXCEPT !.reads = @ \cup {currentHeight}]
            IN  IF Stagnated(c, currentHeight)
                THEN Finish(p, [c EXCEPT !.exit = "stagnated"])
                ELSE Step(p, [c EXCEPT !.previousHeight = currentHeight, !.pc = "scroll"])

\* page.evaluate of window.scrollBy, then sleep(getRandomDelay()) is started
Scroll(p, k, ok) ==
    /\ calls[p].pc = "scroll"
    /\ LET c == [calls[p] EXCEPT !.scrolls = @ + 1]
       IN  Step(p, IF ok
                   THEN [c EXCEPT !.pc = "scrollSleep", !.wakeAt = now + GetRandomDelay(k)]
                   ELSE ThrownInTry(c, "Transport"))

\* the sleep between scrolls is over: scrollAttempts++, and the loop test
ScrollWake(p) ==
    /\ calls[p].pc = "scrollSleep"
    /\ now >= calls[p].wakeAt
    /\ LoopOrFinish(p, [calls[p] EXCEPT !.wakeAt = 0, !.scrollAttempts = @ + 1])

\* page.evaluate of the profile or people extraction (scrapeProfile, searchTopCreators)
Evaluate(p, ok) ==
    /\ calls[p].pc = "evaluate"
    /\ IF ok
       THEN Finish(p, [calls[p] EXCEPT !.extracts = @ + 1])
       ELSE Step(p, ThrownInTry([calls[p] EXCEPT !.extracts = @ + 1], "Transport"))

\* finally { await browser.close() }
Close(p) ==
    /\ calls[p].pc = "closing"
    /\ Step(p, [calls[p] EXCEPT !.browser = "closed", !.pc = "done"])

\* the caller of scrapeTopicPosts gives the crawl up (its deadline passes, it
\* aborts): the method takes topic, encryptedCookies and limit only, so
\* nothing of the invocation changes.  History: cancel is the number of
\* extractions a crawl that tested for cancellation at the top of each
\* iteration would still make.
Cancel(p) ==
    /\ calls[p].kind = "topic"
    /\ calls[p].pc \notin {"idle", "closing", "done"}
    /\ calls[p].cancel = -1
    /\ Step(p, [calls[p] EXCEPT !.cancel = calls[p].extracts +
                                            (IF calls[p].pc = "extract" THEN 1 ELSE 0)])

\* getStats()
GetStats ==
    [totalRequests |-> requestCount,
     hourlyRequests |-> hourlyRequestCount,
     hourResetTime |-> hourStartTime + HourMs - now]

----------------------------------------------------------------------------
(* The browser automation worker: POST /browse, /search-ideas and /scrape *)

JitterMs == 1000
ViewPostMs == 5000
BrowsePauseMs == 3000
BrowsePauseSpanMs == 5000
IdeasSettleMs == 5000
IdeasPauseMs == 4000
ScrapeSettleMs == 3000
IdeasPerScroll == 5

\* sleep(ms) of the worker: ms + Math.random() * 1000, with Math.random() = j / RandDenom
WorkerSleep(ms, j) == ms + ((j * JitterMs) \div RandDenom)

\* sleep(3000 + Math.random() * 5000), with Math.random() = k / RandDenom
BrowsePause(k, j) == WorkerSleep(BrowsePauseMs + ((k * BrowsePauseSpanMs) \div RandDenom), j)

\* const action = Math.random(), in tenths: one value for each branch
RandomTenths == {0, 3, 5, 6}

\* if (action < 0.3) .. else if (action < 0.5) .. else if (action < 0.6) ..
ActionOf(d) ==
    IF d < 3 THEN "scroll"
    ELSE IF d < 5 THEN "like"
    ELSE IF d < 6 THEN "click_post"
    ELSE "none"

WorkerIdle ==
    [pc |-> "idle", endpoint |-> "none", duration |-> 0, browser |-> "none",
     startTime |-> 0, wakeAt |-> 0, actions |-> <<>>, status |-> 0, lastUsed |-> 0,
     limit |-> 0, ideas |-> <<>>, scrollCount |-> 0, content |-> "none",
     \* history of the request
     login |-> "none", iterations |-> 0, absent |-> 0, failed |-> "none",
     browse |-> "none", crawl |-> "none"]

\* res.status(code).json(..) and the end of the handler
Respond(w, code) == [w EXCEPT !.pc = "done", !.status = code, !.wakeAt = 0]

\* mutant: the loop of browseLikeHuman does not test the elapsed time
BrowseLoopUntimed(w) == [w EXCEPT !.pc = "act", !.wakeAt = 0]

\* while (Date.now() - startTime < duration): the body, or return actions
BrowseLoop(w) ==
    IF now - w.startTime < w.duration
    THEN [w EXCEPT !.pc = "act", !.wakeAt = 0]
    ELSE [w EXCEPT !.pc = "update", !.wakeAt = 0, !.browse = "returned"]

\* an await inside browseLikeHuman rejects: nothing in the function catches
\* it, so the handler's catch answers 500
BrowseThrows(w, what) ==
    Respond([w EXCEPT !.failed = what, !.browse = "thrown"], 500)

\* actions.push(name), then sleep(3000 + Math.random() * 5000) is started
BrowsePushed(w, name, k, j) ==
    [w EXCEPT !.actions = Append(@, name), !.pc = "pause",
              !.wakeAt = now + BrowsePause(k, j)]

\* nothing was done in this iteration: the sleep between actions is started
BrowseSkipped(w, k, j) == [w EXCEPT !.pc = "pause", !.wakeAt = now + BrowsePause(k, j)]

WorkerStep(w) ==
    /\ worker' = w
    /\ UNCHANGED <<now, config, gov, calls, started, grants>>

\* POST /browse arrives: prisma.linkedinSession.findUnique is awaited
PostBrowse(duration) ==
    /\ worker.pc = "idle"
    /\ WorkerStep([worker EXCEPT !.pc = "lookup", !.endpoint = "browse",
                                 !.duration = duration])

\* the session row arrives, the cookies are decrypted, initBrowser is awaited
FindSession(session, creds) ==
    /\ worker.pc = "lookup"
    /\ WorkerStep(IF session = "dbError" THEN Respond(worker, 500)
                  ELSE IF session \in {"missing", "inactive"} THEN Respond(worker, 400)
                  ELSE IF creds = "undecryptable" THEN Respond(worker, 500)
                  ELSE [worker EXCEPT !.pc = "launch"])

\* initBrowser, browser.newPage and page.setViewport
WorkerLaunch(result) ==
    /\ worker.pc = "launch"
    /\ WorkerStep(IF result = "launchError" THEN Respond(worker, 500)
                  ELSE IF result = "pageError"
                  THEN Respond([worker EXCEPT !.browser = "open"], 500)
                  ELSE [worker EXCEPT !.browser = "open", !.pc = "login"])

\* POST /search-ideas arrives: prisma.linkedinSession.findUnique is awaited
PostSearchIdeas(limit) ==
    /\ worker.pc = "idle"
    /\ WorkerStep([worker EXCEPT !.pc = "lookup", !.endpoint = "search-ideas",
                                 !.limit = limit])

\* POST /scrape arrives: prisma.linkedinSession.findUnique is awaited
PostScrape ==
    /\ worker.pc = "idle"
    /\ WorkerStep([worker EXCEPT !.pc = "lookup", !.endpoint = "scrape"])

\* loginWithCookies of the worker returned: the browser is closed and 401 is
\* answered, or the operation of the endpoint starts (browseLikeHuman up to
\* its loop test, searchAndCollectIdeas and scrapeContent up to page.goto)
WorkerLogin(result) ==
    /\ worker.pc = "login"
    /\ WorkerStep(IF result # "ok"
                  THEN Respond([worker EXCEPT !.login = result, !.browser = "closed"], 401)
                  ELSE IF worker.endpoint = "browse"
                  THEN BrowseLoop([worker EXCEPT !.login = result, !.browser = "open",
                                                 !.actions = <<>>, !.startTime = now])
                  ELSE IF worker.endpoint = "search-ideas"
                  THEN [worker EXCEPT !.login = result, !.ideas = <<>>, !.pc = "ideasGoto"]
                  ELSE [worker EXCEPT !.login = result, !.pc = "scrapeGoto"])

\* one iteration of browseLikeHuman up to its first sleep: d is the action
\* drawn, r what the page did ("absent": page.$$ found no element, "error":
\* an awaited page call rejected)
BrowseAct(d, r, k, j) ==
    /\ worker.pc = "act"
    /\ ActionOf(d) \in {"scroll", "none"} => r # "absent"
    /\ ActionOf(d) = "none" => r = "done"
    /\ LET w == [worker EXCEPT !.iterations = @ + 1]
       IN  WorkerStep(
             IF ActionOf(d) = "none" THEN BrowseSkipped(w, k, j)
             ELSE IF r = "error" THEN BrowseThrows(w, ActionOf(d))
             ELSE IF r = "absent" THEN BrowseSkipped([w EXCEPT !.absent = @ + 1], k, j)
             ELSE IF ActionOf(d) = "click_post"
             THEN [w EXCEPT !.pc = "viewing", !.wakeAt = now + WorkerSleep(ViewPostMs, j)]
             ELSE BrowsePushed(w, ActionOf(d), k, j))

\* the sleep(5000) on the opened post is over: page.goBack()
BrowseGoBack(ok, k, j) ==
    /\ worker.pc = "viewing"
    /\ now >= worker.wakeAt
    /\ WorkerStep(IF ok THEN BrowsePushed(worker, "click_post", k, j)
                  ELSE BrowseThrows(worker, "goBack"))

\* the sleep between actions is over: the loop test
BrowsePauseWake ==
    /\ worker.pc = "pause"
    /\ now >= worker.wakeAt
    /\ WorkerStep(BrowseLoop(worker))

\* what page.evaluate of searchAndCollectIdeas makes of the DOM: the elements
\* that have a content node (here: all of them), with trimmed texts
ExtractIdeas(dom) ==
    [i \in 1..Len(dom) |-> [author |-> Trim(dom[i].author), content |-> Trim(dom[i].content)]]

\* for (const post of posts) { ... }: ideas are unique by content
RECURSIVE AddUniqueIdeas(_, _, _)
AddUniqueIdeas(ideas, posts, limit) ==
    IF posts = <<>> \/ Len(ideas) >= limit
    THEN ideas
    ELSE LET post == Head(posts)
             isDuplicate == \E i \in 1..Len(ideas) : ideas[i].content = post.content
         IN  IF ~isDuplicate /\ post.content # ""
             THEN AddUniqueIdeas(Append(ideas, post), Tail(posts), limit)
             ELSE AddUniqueIdeas(ideas, Tail(posts), limit)

\* while (ideas.length < limit && scrollCount < maxScrolls): the body, or
\* return ideas
IdeasLoop(w) ==
    IF Len(w.ideas) < w.limit /\ w.scrollCount < -((-w.limit) \div IdeasPerScroll)
    THEN [w EXCEPT !.pc = "ideasExtract", !.wakeAt = 0]
    ELSE [w EXCEPT !.pc = "update", !.wakeAt = 0, !.crawl = "ok"]

\* catch (error) of searchAndCollectIdeas: return ideas
IdeasCaught(w) == [w EXCEPT !.pc = "update", !.wakeAt = 0, !.crawl = "failed"]

\* page.goto of the search URL, then sleep(5000) is started
IdeasGoto(ok, j) ==
    /\ worker.pc = "ideasGoto"
    /\ WorkerStep(IF ok
                  THEN [worker EXCEPT !.pc = "ideasSettle", !.scrollCount = 0,
                                      !.wakeAt = now + WorkerSleep(IdeasSettleMs, j)]
                  ELSE IdeasCaught(worker))

\* the sleep(5000) is over: the loop test
IdeasSettleWake ==
    /\ worker.pc = "ideasSettle"
    /\ now >= worker.wakeAt
    /\ WorkerStep(IdeasLoop(worker))

\* page.evaluate of the extraction, the loop that adds unique ideas, then
\* page.evaluate of window.scrollBy is awaited
IdeasExtract(dom, ok) ==
    /\ worker.pc = "ideasExtract"
    /\ WorkerStep(IF ok
                  THEN [worker EXCEPT !.ideas = AddUniqueIdeas(@, ExtractIdeas(dom), worker.limit),
                                      !.pc = "ideasScroll"]
                  ELSE IdeasCaught(worker))

\* the scroll, then sleep(4000) is started
IdeasScroll(ok, j) ==
    /\ worker.pc = "ideasScroll"
    /\ WorkerStep(IF ok
                  THEN [worker EXCEPT !.pc = "ideasPause",
                                      !.wakeAt = now + WorkerSleep(IdeasPauseMs, j)]
                  ELSE IdeasCaught(worker))

\* the sleep(4000) is over: scrollCount++, and the loop test
IdeasPauseWake ==
    /\ worker.pc = "ideasPause"
    /\ now >= worker.wakeAt
    /\ WorkerStep(IdeasLoop([worker EXCEPT !.scrollCount = @ + 1]))

\* catch (error) of scrapeContent: return null
ScrapeCaught(w) == [w EXCEPT !.pc = "update", !.wakeAt = 0, !.content = "null", !.crawl = "failed"]

\* page.goto(url) of scrapeContent, then sleep(3000) is started
ScrapeGoto(ok, j) ==
    /\ worker.pc = "scrapeGoto"
    /\ WorkerStep(IF ok
                  THEN [worker EXCEPT !.pc = "scrapeSettle",
                                      !.wakeAt = now + WorkerSleep(ScrapeSettleMs, j)]
                  ELSE ScrapeCaught(worker))

\* the sleep(3000) is over: page.evaluate of the content is awaited
ScrapeSettleWake ==
    /\ worker.pc = "scrapeSettle"
    /\ now >= worker.wakeAt
    /\ WorkerStep([worker EXCEPT !.pc = "scrapeEvaluate", !.wakeAt = 0])

\* page.evaluate of scrapeContent: return content
ScrapeEvaluate(ok) ==
    /\ worker.pc = "scrapeEvaluate"
    /\ WorkerStep(IF ok
                  THEN [worker EXCEPT !.pc = "update", !.content = "some", !.crawl = "ok"]
                  ELSE ScrapeCaught(worker))

\* prisma.linkedinSession.update of lastUsed
UpdateSession(ok) ==
    /\ worker.pc = "update"
    /\ WorkerStep(IF ok THEN [worker EXCEPT !.lastUsed = @ + 1, !.pc = "closing"]
                  ELSE Respond(worker, 500))

\* browser.close(), then res.json({ success: true, .. })
WorkerClose ==
    /\ worker.pc = "closing"
    /\ WorkerStep(Respond([worker EXCEPT !.browser = "closed"], 200))

----------------------------------------------------------------------------
(* Time *)

\* time passes: up to the next timer that is due, or a whole hour
WakeTimes ==
    { calls[p].wakeAt : p \in { q \in Procs : calls[q].wakeAt > now } }
        \cup (IF worker.wakeAt > now THEN {worker.wakeAt} ELSE {})

Advance(t) ==
    /\ t > now
    /\ t \in WakeTimes \/ (t = now + HourMs /\ t <= MaxNow)
    /\ now' = t
    /\ UNCHANGED <<config, gov, calls, started, grants, worker>>

----------------------------------------------------------------------------
(* Specifications *)

Kinds == {"topic", "profile", "creators"}
Creds == {"valid", "undecryptable"}
LoginResults == {"ok", "rejected", "transport"}
LaunchResults == {"ok", "launchError", "pageError"}
Heights == 0..MaxHeight
Draws == 0..(RandDenom - 1)

Init ==
    /\ now = StartTime
    /\ config \in Configs
    /\ requestCount = 0
    /\ lastRequestTime = 0
    /\ hourlyRequestCount = 0
    /\ hourStartTime = StartTime
    /\ calls = [p \in Procs |-> Idle]
    /\ started = 0
    /\ grants = <<>>
    /\ worker = WorkerIdle

\* The instance under load: invocations of the three methods that overlap
\* and follow each other, on a page that shows at most one post.
GovDoms == SeqsUpTo({[author |-> "ann", content |-> "x"]}, 1)
GovLimits == {Whole(1)}

Next ==
    \/ \E p \in Procs, kind \in Kinds, limit \in GovLimits, creds \in Creds, k \in Draws :
            Invoke(p, kind, limit, creds, k)
    \/ \E p \in Procs : RateWake(p)
    \/ \E p \in Procs, result \in LaunchResults : Launch(p, result)
    \/ \E p \in Procs, result \in LoginResults : Login(p, result)
    \/ \E p \in Procs, ok \in BOOLEAN : Navigate(p, ok)
    \/ \E p \in Procs : NavWake(p)
    \/ \E p \in Procs, dom \in GovDoms, ok \in BOOLEAN : Extract(p, dom, ok)
    \/ \E p \in Procs, h \in Heights, ok \in BOOLEAN : ReadHeight(p, h, ok)
    \/ \E p \in Procs, k \in Draws, ok \in BOOLEAN : Scroll(p, k, ok)
    \/ \E p \in Procs : ScrollWake(p)
    \/ \E p \in Procs, ok \in BOOLEAN : Evaluate(p, ok)
    \/ \E p \in Procs : Close(p)
    \/ \E t \in WakeTimes \cup {now + HourMs} : Advance(t)

Spec == Init /\ [][Next]_vars

\* The instance used by one caller at a time: invocations of the three
\* methods that follow each other, with idle time between them.
SeqNext ==
    \/ \E kind \in Kinds, limit \in GovLimits, creds \in Creds, k \in Draws :
            Invoke(1, kind, limit, creds, k)
    \/ RateWake(1)
    \/ \E result \in LaunchResults : Launch(1, result)
    \/ \E result \in LoginResults : Login(1, result)
    \/ \E ok \in BOOLEAN : Navigate(1, ok)
    \/ NavWake(1)
    \/ \E dom \in GovDoms, ok \in BOOLEAN : Extract(1, dom, ok)
    \/ \E h \in Heights, ok \in BOOLEAN : ReadHeight(1, h, ok)
    \/ \E k \in Draws, ok \in BOOLEAN : Scroll(1, k, ok)
    \/ ScrollWake(1)
    \/ \E ok \in BOOLEAN : Evaluate(1, ok)
    \/ Close(1)
    \/ \E t \in WakeTimes \cup {now + HourMs} : Advance(t)

SeqSpec == Init /\ [][SeqNext]_vars

\* One crawl on a fresh instance, on a page that shows any short list of
\* elements: scrapeTopicPosts with every limit that changes the loop's course.
\* The clock moves from timer to timer and every scroll delay is the shortest
\* one; on a fresh instance checkRateLimits never sleeps (lastRequestTime = 0),
\* so its wake-up is not a step here.
CrawlDoms == SeqsUpTo(RawElements, MaxPage)
CrawlLimits ==
    { Whole(-1), Whole(0), Whole(1), Whole(2), Whole(PostsPerScroll + 1),
      Whole(2 * PostsPerScroll + 1), Whole(1) + 1 }

CrawlNext ==
    \/ \E limit \in CrawlLimits, creds \in Creds, k \in Draws :
            calls[1].pc = "idle" /\ Invoke(1, "topic", limit, creds, k)
    \/ \E result \in LaunchResults : Launch(1, result)
    \/ \E result \in LoginResults : Login(1, result)
    \/ \E ok \in BOOLEAN : Navigate(1, ok)
    \/ NavWake(1)
    \/ \E dom \in CrawlDoms, ok \in BOOLEAN : Extract(1, dom, ok)
    \/ \E h \in Heights, ok \in BOOLEAN : ReadHeight(1, h, ok)
    \/ \E ok \in BOOLEAN : Scroll(1, 0, ok)
    \/ ScrollWake(1)
    \/ Close(1)
    \/ \E t \in WakeTimes : Advance(t)

CrawlInit == Init /\ config.maxPerHour = MaxCeiling

CrawlSpec == CrawlInit /\ [][CrawlNext]_vars

\* The scenario of the specification's section 8: limit 15, every extraction
\* returns 10 elements not seen before plus 2 elements of the previous
\* extraction (two neighbours of it, anywhere in the list), every height
\* reading differs from the one before, nothing fails.
ScenarioAuthors == <<"ann", "bob", "cy", "dee", "eve", "fay">>
ScenarioTexts == <<"t1", "t2", "t3", "t4", "t5", "t6", "t7">>

ScenarioElement(r) ==
    [author |-> ScenarioAuthors[(((r - 1) % 42) \div 7) + 1],
     content |-> ScenarioTexts[((r - 1) % 7) + 1]]

\* the DOM at extraction number n
ScenarioDoms(n) ==
    IF n = 1
    THEN { [m \in 1..10 |-> ScenarioElement(m)] }
    ELSE { [m \in 1..12 |->
                IF m = i THEN ScenarioElement(10 * (n - 2) + a)
                ELSE IF m = j THEN ScenarioElement(10 * (n - 2) + (a % 10) + 1)
                ELSE ScenarioElement(10 * (n - 1) + m - (IF m > i THEN 1 ELSE 0)
                                                      - (IF m > j THEN 1 ELSE 0))] :
             <<i, j, a>> \in { t \in (1..12) \X (1..12) \X (1..10) : t[1] < t[2] } }

ScenarioNext ==
    \/ \E k \in Draws : calls[1].pc = "idle" /\ Invoke(1, "topic", Whole(15), "valid", k)
    \/ Launch(1, "ok")
    \/ Login(1, "ok")
    \/ Navigate(1, TRUE)
    \/ NavWake(1)
    \/ \E dom \in ScenarioDoms(calls[1].extracts + 1) : Extract(1, dom, TRUE)
    \/ \E h \in Heights \ {calls[1].previousHeight} : ReadHeight(1, h, TRUE)
    \/ \E k \in Draws : Scroll(1, k, TRUE)
    \/ ScrollWake(1)
    \/ Close(1)
    \/ \E t \in WakeTimes \cup {now + HourMs} : Advance(t)

ScenarioSpec == CrawlInit /\ [][ScenarioNext]_vars

\* The instance with an overridden minDelay (SCRAPER_MIN_DELAY or the
\* constructor argument) and the default maxDelay, used by one caller at a time.
OverriddenMinDelay == 10000
MinDelays == {0, DefaultMinDelay, DefaultMaxDelay, OverriddenMinDelay}

DelayConfigs ==
    { [minDelay |-> d, maxDelay |-> DefaultMaxDelay, maxPerHour |-> MaxCeiling] :
        d \in MinDelays }

DelayInit ==
    /\ now = StartTime
    /\ config \in DelayConfigs
    /\ requestCount = 0
    /\ lastRequestTime = 0
    /\ hourlyRequestCount = 0
    /\ hourStartTime = StartTime
    /\ calls = [p \in Procs |-> Idle]
    /\ started = 0
    /\ grants = <<>>
    /\ worker = WorkerIdle

DelaySpec == DelayInit /\ [][SeqNext]_vars

\* One crawl that is run to its end: every page call settles (puppeteer
\* resolves or rejects each of them, a navigation after 30 s at the latest) and
\* every timer fires, so a step that can be taken is taken.  The page shows at
\* most one element at a time, so that a crawl with a limit above the number
\* of distinct posts never collects enough.
LoopDoms == SeqsUpTo(RawElements, 1)
LoopLimits ==
    { Whole(1), Whole(1) + 1, Whole(PostsPerScroll), Whole(PostsPerScroll) + 1,
      Whole(2 * PostsPerScroll + 1) }

LoopNext ==
    \/ \E limit \in LoopLimits, k \in Draws :
            calls[1].pc = "idle" /\ Invoke(1, "topic", limit, "valid", k)
    \/ \E result \in LaunchResults : Launch(1, result)
    \/ \E result \in LoginResults : Login(1, result)
    \/ \E ok \in BOOLEAN : Navigate(1, ok)
    \/ NavWake(1)
    \/ \E dom \in LoopDoms, ok \in BOOLEAN : Extract(1, dom, ok)
    \/ \E h \in Heights, ok \in BOOLEAN : ReadHeight(1, h, ok)
    \/ \E ok \in BOOLEAN : Scroll(1, 0, ok)
    \/ ScrollWake(1)
    \/ Close(1)
    \/ \E t \in WakeTimes : Advance(t)

LoopSpec == CrawlInit /\ [][LoopNext]_vars /\ WF_vars(LoopNext)

\* One crawl that its caller may give up at any moment.
CancelLimits == {Whole(1), Whole(PostsPerScroll + 1)}

CancelNext ==
    \/ \E limit \in CancelLimits, k \in Draws :
            calls[1].pc = "idle" /\ Invoke(1, "topic", limit, "valid", k)
    \/ Launch(1, "ok")
    \/ \E result \in LoginResults : Login(1, result)
    \/ \E ok \in BOOLEAN : Navigate(1, ok)
    \/ NavWake(1)
    \/ \E dom \in CrawlDoms, ok \in BOOLEAN : Extract(1, dom, ok)
    \/ \E h \in Heights, ok \in BOOLEAN : ReadHeight(1, h, ok)
    \/ \E ok \in BOOLEAN : Scroll(1, 0, ok)
    \/ ScrollWake(1)
    \/ Close(1)
    \/ Cancel(1)
    \/ \E t \in WakeTimes : Advance(t)

CancelSpec == CrawlInit /\ [][CancelNext]_vars

\* One request to the worker: POST /browse with the durations that end the
\* loop before its first, after its first and after its second iteration,
\* POST /search-ideas with a limit of one and of two scrolls, or POST /scrape.
MaxBrowseSteps == 1
BrowseDurations == {-1, 0} \cup { n * BrowsePauseMs + 1 : n \in 0..MaxBrowseSteps }
Sessions == {"missing", "inactive", "active", "dbError"}
PageResults == {"done", "absent", "error"}

IdeasLimits == {1, IdeasPerScroll + 1}
IdeasDoms == SeqsUpTo(RawElements, 1)

WorkerNext ==
    \/ \E duration \in BrowseDurations : PostBrowse(duration)
    \/ \E limit \in IdeasLimits : PostSearchIdeas(limit)
    \/ PostScrape
    \/ \E ok \in BOOLEAN, j \in Draws : IdeasGoto(ok, j)
    \/ IdeasSettleWake
    \/ \E dom \in IdeasDoms, ok \in BOOLEAN : IdeasExtract(dom, ok)
    \/ \E ok \in BOOLEAN, j \in Draws : IdeasScroll(ok, j)
    \/ IdeasPauseWake
    \/ \E ok \in BOOLEAN, j \in Draws : ScrapeGoto(ok, j)
    \/ ScrapeSettleWake
    \/ \E ok \in BOOLEAN : ScrapeEvaluate(ok)
    \/ \E session \in Sessions, creds \in Creds : FindSession(session, creds)
    \/ \E result \in LaunchResults : WorkerLaunch(result)
    \/ \E result \in LoginResults : WorkerLogin(result)
    \/ \E d \in RandomTenths, r \in PageResults, k \in Draws, j \in Draws : BrowseAct(d, r, k, j)
    \/ \E ok \in BOOLEAN, k \in Draws, j \in Draws : BrowseGoBack(ok, k, j)
    \/ BrowsePauseWake
    \/ \E ok \in BOOLEAN : UpdateSession(ok)
    \/ WorkerClose
    \/ \E t \in WakeTimes : Advance(t)

WorkerSpec == Init /\ [][WorkerNext]_vars

\* One request to POST /browse that is run to its end: every page call and
\* database call settles and every timer fires.
BrowseNext ==
    \/ \E duration \in BrowseDurations : PostBrowse(duration)
    \/ \E session \in Sessions, creds \in Creds : FindSession(session, creds)
    \/ \E result \in LaunchResults : WorkerLaunch(result)
    \/ \E result \in LoginResults : WorkerLogin(result)
    \/ \E d \in RandomTenths, r \in PageResults, k \in Draws, j \in Draws : BrowseAct(d, r, k, j)
    \/ \E ok \in BOOLEAN, k \in Draws, j \in Draws : BrowseGoBack(ok, k, j)
    \/ BrowsePauseWake
    \/ \E ok \in BOOLEAN : UpdateSession(ok)
    \/ WorkerClose
    \/ \E t \in WakeTimes : Advance(t)

BrowseSpec == Init /\ [][BrowseNext]_vars /\ WF_vars(BrowseNext)

----------------------------------------------------------------------------
(* Claims *)

Returned(c) == c.pc = "done" /\ c.outcome = "returned"

\* C1: the list scrapeTopicPosts accumulates and returns never holds two
\* records with the same fingerprint (author, content), whatever the
\* extractions emit.
C1_NoDuplicateFingerprints ==
    \A p \in Procs : \A i, j \in 1..Len(calls[p].posts) :
        (calls[p].posts[i].author = calls[p].posts[j].author /\
         calls[p].posts[i].content = calls[p].posts[j].content) => i = j

\* a crawl of two extractions has returned several records after skipping a
\* duplicate the page emitted
C1_Witness ==
    \E p \in Procs :
        /\ Returned(calls[p])
        /\ calls[p].extracts >= 2
        /\ calls[p].skipped >= 1
        /\ Len(calls[p].posts) >= 2

\* C2: hourlyRequestCount never exceeds config.maxPerHour.
C2_CountWithinCeiling == hourlyRequestCount <= config.maxPerHour

\* C3: in any rolling hour at most maxPerHour requests are granted: the
\* grants of the hour that ends with a grant, that grant included, number at
\* most maxPerHour.
C3_RollingHourQuota ==
    \A i \in 1..Len(grants) :
        Cardinality({ j \in 1..i : grants[j] > grants[i] - HourMs }) <= config.maxPerHour

\* C4: a checkRateLimits call made when the counter has reached maxPerHour
\* (maxPerHour >= 1) and the window is an hour old resets the counter to 0,
\* sets hourStartTime to now and grants permission.
C4_RollThenGrant ==
    [][ (/\ started' = started + 1
         /\ config.maxPerHour >= 1
         /\ hourlyRequestCount >= config.maxPerHour
         /\ now - hourStartTime >= HourMs)
        => (/\ hourlyRequestCount' = 0
            /\ hourStartTime' = now
            /\ \E p \in Procs : /\ calls'[p].id = started'
                                /\ calls'[p].permit \in {"waiting", "granted"}) ]_vars

\* an invocation whose check found the counter at the ceiling and the window expired
C4_Witness ==
    \E p \in Procs : calls[p].rolledFull /\ config.maxPerHour >= 1

\* C5: two consecutive granted requests are at least minDelay apart.
C5_MinDelayBetweenGrants ==
    \A i \in 2..Len(grants) : grants[i] - grants[i - 1] >= config.minDelay

C8_NoFetchAfterLoginFailure ==
    \A p \in Procs :
        calls[p].login \in {"rejected", "transport"} =>
            /\ calls[p].navs = 0
            /\ calls[p].extracts = 0
            /\ calls[p].scrolls = 0
            /\ calls[p].reads = {}

\* a second invocation, of scrapeProfile or searchTopCreators, has ended after
\* a failed login
C8_Witness ==
    \E p \in Procs :
        /\ calls[p].pc = "done"
        /\ calls[p].login \in {"rejected", "transport"}
        /\ calls[p].kind # "topic"
        /\ calls[p].id = 2

\* C9: in the scenario the crawl makes exactly 2 extractions, which emit
\* exactly 20 distinct records, and returns normally with the limit reached.
C9_Scenario ==
    \A p \in Procs :
        calls[p].pc = "done" =>
            /\ calls[p].extracts = 2
            /\ Cardinality(calls[p].seen) = 20
            /\ calls[p].outcome = "returned"
            /\ calls[p].exit = "condition"
            /\ Whole(Len(calls[p].posts)) >= calls[p].limit

\* the scenario's crawl has ended, having skipped a duplicate of the first page
C9_Witness ==
    \E p \in Procs :
        calls[p].pc = "done" /\ calls[p].limit = Whole(15) /\ calls[p].skipped >= 1

C11_TransportIsRaised ==
    \A p \in Procs : calls[p].login = "transport" => calls[p].error = "Transport"

\* C12: once the caller has given the crawl up, the crawl starts no new
\* iteration: it makes no extraction beyond the one in progress.
C12_CancelStopsTheLoop ==
    \A p \in Procs : calls[p].cancel >= 0 => calls[p].extracts <= calls[p].cancel

\* C13: an action of browseLikeHuman that fails (the scroll, the click or the
\* go-back rejects) does not abort the run: browseLikeHuman still returns.
C13_FailedActionIsSkipped ==
    worker.failed # "none" => worker.browse # "thrown"

\* C14: at any moment getStats reports 0 requests for a window that has
\* expired, and a time until the reset between 0 and one hour.
C14_StatsOfCurrentWindow ==
    /\ now - hourStartTime >= HourMs => GetStats.hourlyRequests = 0
    /\ GetStats.hourResetTime >= 0
    /\ GetStats.hourResetTime <= HourMs

IsPrefix(s, t) == Len(s) <= Len(t) /\ \A i \in 1..Len(s) : s[i] = t[i]

\* the accumulated records stand in the order in which the crawl first saw them
InDiscoveryOrder(c) ==
    /\ \A i \in 1..Len(c.posts) : \E a \in 1..Len(c.order) : c.order[a] = c.posts[i]
    /\ \A i, j \in 1..Len(c.posts) :
            i < j => \E a, b \in 1..Len(c.order) :
                        a < b /\ c.order[a] = c.posts[i] /\ c.order[b] = c.posts[j]

\* C15: every step of a crawl only appends to the accumulated list, and the
\* list is in discovery order: a record first seen earlier stands before
\* every record first seen later.
C15_DiscoveryOrder ==
    [][ \A p \in Procs :
            /\ calls'[p].id = calls[p].id => IsPrefix(calls[p].posts, calls'[p].posts)
            /\ InDiscoveryOrder(calls'[p]) ]_vars

\* a crawl has returned three records gathered over several extractions
C15_Witness ==
    \E p \in Procs :
        Returned(calls[p]) /\ Len(calls[p].posts) = 3 /\ calls[p].extracts >= 2

\* C16: a transport error in the collecting loop of scrapeTopicPosts (the
\* extraction, the height reading or the scroll fails) makes the invocation
\* throw once the browser is closed: it never returns, whatever it had
\* accumulated.
C16_TransportAbortsCrawl ==
    \A p \in Procs :
        (calls[p].kind = "topic" /\ calls[p].error = "Transport" /\ calls[p].extracts >= 1) =>
            /\ calls[p].outcome = "thrown"
            /\ calls[p].pc \in {"closing", "done"}
            /\ calls[p].pc = "done" => calls[p].browser = "closed"

\* a crawl that had accumulated a record has ended with a transport error
C16_Witness ==
    \E p \in Procs :
        /\ calls[p].pc = "done"
        /\ calls[p].kind = "topic"
        /\ calls[p].error = "Transport"
        /\ Len(calls[p].posts) >= 1

\* C17: the step in which permission is granted adds one to the window
\* counter (after the roll, if the window had expired) and sets
\* lastRequestTime to the time of the grant.
C17_GrantIsCounted ==
    [][ Len(grants') > Len(grants) =>
            /\ hourlyRequestCount' =
                    (IF now - hourStartTime >= HourMs THEN 0 ELSE hourlyRequestCount) + 1
            /\ lastRequestTime' = now ]_vars

\* the step is a call of checkRateLimits that returns false
DenialStep ==
    /\ started' = started + 1
    /\ \E p \in Procs : calls'[p].id = started' /\ calls'[p].permit = "denied"

\* C18: a checkRateLimits call that denies leaves the four pacing fields
\* unchanged and waits for nothing.
C18_DenialChangesNothing ==
    [][ DenialStep => (UNCHANGED gov /\ now' = now) ]_vars

\* C18 as amended: a checkRateLimits call that denies leaves requestCount and
\* lastRequestTime unchanged and waits for nothing; it leaves
\* hourlyRequestCount and hourStartTime unchanged unless the window had
\* expired, and then it has reset the counter to 0 and set hourStartTime to
\* now before it denied.
C18_DenialOnlyRollsWindow ==
    [][ DenialStep =>
            /\ requestCount' = requestCount
            /\ lastRequestTime' = lastRequestTime
            /\ now' = now
            /\ \A p \in Procs : calls'[p].id = started' => calls'[p].wakeAt = 0
            /\ IF now - hourStartTime >= HourMs
               THEN hourlyRequestCount' = 0 /\ hourStartTime' = now
               ELSE hourlyRequestCount' = hourlyRequestCount /\
                    hourStartTime' = hourStartTime ]_vars

\* with maxPerHour = 0 a call was denied after it had rolled an expired window
C18_Witness ==
    \E p \in Procs :
        /\ calls[p].permit = "denied"
        /\ config.maxPerHour = 0
        /\ hourStartTime = now
        /\ hourStartTime > StartTime

\* C19: a crawl makes no more iterations (extractions) than it was granted
\* permissions.
C19_PermissionPerIteration ==
    \A p \in Procs :
        calls[p].extracts <= (IF calls[p].permit = "granted" THEN 1 ELSE 0)

\* C20: once the accumulated list has reached the limit, the crawl reads no
\* height and makes no scroll: it is never about to scroll, or asleep after a
\* scroll, with the limit reached.
C20_CompletedAtOnce ==
    \A p \in Procs :
        (calls[p].kind = "topic" /\ Whole(Len(calls[p].posts)) >= calls[p].limit) =>
            calls[p].pc \notin {"scroll", "scrollSleep"}

\* C21: a crawl with a limit of at least 1 makes at most ceil(limit / 10)
\* iterations (the n-th iteration is made only if 10 * (n - 1) < limit), and
\* the invocation comes to its end.
C21_IterationCeiling ==
    /\ [](\A p \in Procs :
            (calls[p].kind = "topic" /\ calls[p].limit >= Whole(1) /\ calls[p].extracts >= 1) =>
                Whole((calls[p].extracts - 1) * PostsPerScroll) < calls[p].limit)
    /\ <>(calls[1].pc = "done")

\* a crawl whose page kept growing without yielding enough records has
\* returned after three iterations, short of its limit
C21_Witness ==
    \E p \in Procs :
        /\ Returned(calls[p])
        /\ calls[p].extracts = 3
        /\ calls[p].exit = "condition"
        /\ Whole(Len(calls[p].posts)) < calls[p].limit

\* C22: no accumulated record has empty content, and a record without
\* content does not end the processing of its extraction: while the limit is
\* not reached, every extracted record with content is in the list.
C22_EmptyContentDropped ==
    \A p \in Procs :
        /\ \A i \in 1..Len(calls[p].posts) : calls[p].posts[i].content # ""
        /\ Whole(Len(calls[p].posts)) < calls[p].limit =>
                \A r \in calls[p].seen :
                    r.content # "" => \E i \in 1..Len(calls[p].posts) : calls[p].posts[i] = r

\* the one extraction of a crawl emitted a record without content and then a
\* record with content, which was returned
C22_Witness ==
    \E p \in Procs :
        /\ Returned(calls[p])
        /\ calls[p].extracts = 1
        /\ Len(calls[p].order) = 2
        /\ calls[p].order[1].content = ""
        /\ calls[p].posts = <<calls[p].order[2]>>

\* C23: every delay getRandomDelay produces, the one a pre-request wait is
\* computed from and the one slept between scrolls, lies in
\* [minDelay, maxDelay].
C23_DelayWithinRange ==
    [][ \A p \in Procs :
            /\ (calls[p].pc = "scroll" /\ calls'[p].pc = "scrollSleep") =>
                    /\ calls'[p].wakeAt - now >= config.minDelay
                    /\ calls'[p].wakeAt - now <= config.maxDelay
            /\ (calls[p].pc # "rateSleep" /\ calls'[p].pc = "rateSleep") =>
                    /\ calls'[p].wakeAt - lastRequestTime >= config.minDelay
                    /\ calls'[p].wakeAt - lastRequestTime <= config.maxDelay ]_vars

\* C26: the accumulated list never holds more than max(limit, 0) records.
C26_AtMostLimit ==
    \A p \in Procs :
        Whole(Len(calls[p].posts)) <= (IF calls[p].limit > 0 THEN calls[p].limit ELSE 0)

\* C26 as amended: the accumulated list never holds more than
\* ceil(max(limit, 0)) records: fewer than max(limit, 0) + 1, and at most
\* max(limit, 0) when the limit is a whole number.
C26_AtMostCeilOfLimit ==
    \A p \in Procs :
        LET most == IF calls[p].limit > 0 THEN calls[p].limit ELSE 0
        IN  /\ Whole(Len(calls[p].posts)) < most + LimitDenom
            /\ calls[p].limit % LimitDenom = 0 => Whole(Len(calls[p].posts)) <= most

\* a crawl with limit 1 has returned one record of an extraction that held two
C26_Witness ==
    \E p \in Procs :
        /\ Returned(calls[p])
        /\ calls[p].limit = Whole(1)
        /\ calls[p].extracts = 1
        /\ Len(calls[p].posts) = 1
        /\ Cardinality({ r \in calls[p].seen : r.content # "" }) = 2

\* C27: an invocation that has ended has left no browser open, and has closed
\* the browser it launched.
C27_BrowserClosedAtEnd ==
    \A p \in Procs :
        calls[p].pc = "done" =>
            /\ calls[p].browser # "open"
            /\ (calls[p].login # "none" \/ calls[p].navs > 0) => calls[p].browser = "closed"

\* scrapeProfile or searchTopCreators has ended with a transport error after
\* its navigation, with its browser closed
C27_Witness ==
    \E p \in Procs :
        /\ calls[p].pc = "done"
        /\ calls[p].kind # "topic"
        /\ calls[p].error = "Transport"
        /\ calls[p].navs >= 1
        /\ calls[p].browser = "closed"

\* C29: an invocation decrypts, launches a browser, logs in or navigates only
\* after checkRateLimits has returned true in it; a denied invocation has
\* thrown without any of these, and a waiting one has done none of them yet.
C29_NothingBeforeGrant ==
    \A p \in Procs :
        /\ (\/ calls[p].pc \notin {"idle", "rateSleep", "done"}
            \/ calls[p].browser # "none"
            \/ calls[p].login # "none"
            \/ calls[p].navs > 0
            \/ calls[p].error \in {"Credential", "Login", "Transport"})
                => calls[p].permit = "granted"
        /\ calls[p].permit = "denied" =>
                /\ calls[p].pc = "done"
                /\ calls[p].outcome = "thrown"
                /\ calls[p].browser = "none"
                /\ calls[p].login = "none"
                /\ calls[p].navs = 0
        /\ calls[p].permit = "waiting" => calls[p].pc = "rateSleep"

\* a second invocation, granted after the first had succeeded, has navigated
C29_Witness ==
    \E p \in Procs :
        /\ calls[p].id = 2
        /\ calls[p].permit = "granted"
        /\ calls[p].navs >= 1
        /\ requestCount >= 1

\* C30: 0 <= hourlyRequestCount <= requestCount; requestCount never
\* decreases; hourlyRequestCount changes only by +1, together with
\* requestCount, when an invocation returns, or to 0 in a call of
\* checkRateLimits made when the window has expired.
C30_CounterDiscipline ==
    [][ /\ 0 <= hourlyRequestCount'
        /\ hourlyRequestCount' <= requestCount'
        /\ requestCount' >= requestCount
        /\ \/ hourlyRequestCount' = hourlyRequestCount
           \/ /\ hourlyRequestCount' = hourlyRequestCount + 1
              /\ requestCount' = requestCount + 1
              /\ \E p \in Procs : calls[p].outcome = "none" /\ calls'[p].outcome = "returned"
           \/ /\ hourlyRequestCount' = 0
              /\ started' = started + 1
              /\ now - hourStartTime >= HourMs ]_vars

\* the window counter is back at 0 after a request was counted
C30_Witness == hourlyRequestCount = 0 /\ requestCount >= 1

\* C24: browseLikeHuman comes to its end; an iteration starts only while the
\* elapsed time is below the duration (never for a duration <= 0), every
\* finished iteration has waited at least 3000 ms, so the n-th one starts
\* only if 3000 * (n - 1) < duration; an iteration appends at most one name,
\* and names are only appended at the end of the list.
C24_BrowseTerminates ==
    /\ [][ /\ IsPrefix(worker.actions, worker.actions')
           /\ Len(worker.actions') <= Len(worker.actions) + 1 ]_vars
    /\ [](/\ Len(worker.actions) <= worker.iterations
          /\ worker.pc = "act" => now - worker.startTime < worker.duration
          /\ worker.duration <= 0 => (worker.iterations = 0 /\ worker.actions = <<>>)
          /\ worker.browse = "returned" =>
                now - worker.startTime >= BrowsePauseMs * worker.iterations
          /\ worker.iterations >= 1 =>
                BrowsePauseMs * (worker.iterations - 1) < worker.duration)
    /\ <>(worker.pc = "done")

\* a browse of two iterations has returned two different action names and
\* was answered
C24_Witness ==
    /\ worker.pc = "done"
    /\ worker.status = 200
    /\ worker.iterations = 2
    /\ Len(worker.actions) = 2
    /\ worker.actions[1] # worker.actions[2]

\* the operation of the endpoint succeeded
CrawlSucceeded(w) ==
    IF w.endpoint = "browse" THEN w.browse = "returned" ELSE w.crawl = "ok"

\* C25: lastUsed is written only when the operation of the endpoint
\* succeeded.
C25_LastUsedOnlyOnSuccess ==
    worker.lastUsed >= 1 => CrawlSucceeded(worker)

\* C28: when the response has been sent, no browser of the request is open.
C28_WorkerBrowserClosed ==
    worker.pc = "done" => worker.browser # "open"

====
